---- MODULE Spec2Model ----
(***************************************************************************)
(* A model of searchConcurrent (file-search): the dispatcher goroutines     *)
(* (processDir), the collector goroutine, and the calling goroutine, over   *)
(* a finite directory tree.                                                 *)
(*                                                                          *)
(* Granularity.  Every step that touches state shared between goroutines    *)
(* (resultChan, doneChan, semaphore, wg, the flags and counters) is its own *)
(* action.  Purely local computation (the match classification, the loop    *)
(* index) is folded into the shared step that precedes it, and the deferred *)
(* wg.Done() is folded into the step that makes processDir return: nothing  *)
(* a goroutine does between the two depends on other goroutines.  The       *)
(* `depth` parameter of processDir is never read and is left out.           *)
(***************************************************************************)
EXTENDS Integers, Sequences, FiniteSets, TLC

\* ------------------------------------------------------------------ bounds
\* maxWorkers ranges over 1..MaxWorkersBound
MaxWorkersBound == 2
\* at most MaxFail directories of the tree fail to list
MaxFail == 1

\* ------------------------------------------------------- the directory tree
\* A tree is a sequence of entries; entry n has a parent directory (0 is the
\* root directory, otherwise the index of a directory entry), a name and a
\* kind.  The index of an entry stands for its path.
Names == <<"a", "b", "c", "t">>

NameRank(nm) == CHOOSE k \in 1..Len(Names) : Names[k] = nm

\* /a/b/t  /a/c/t   (the tree of the specification's scenarios)
TreeAB == << [parent |-> 0, name |-> "a", dir |-> TRUE],
             [parent |-> 1, name |-> "c", dir |-> TRUE],
             [parent |-> 1, name |-> "b", dir |-> TRUE],
             [parent |-> 3, name |-> "t", dir |-> FALSE],
             [parent |-> 2, name |-> "t", dir |-> FALSE] >>

\* /t  /c/  /c/c (a file): one file named t, one directory and one file
\* named c
TreeCT == << [parent |-> 0, name |-> "t", dir |-> FALSE],
             [parent |-> 0, name |-> "c", dir |-> TRUE],
             [parent |-> 2, name |-> "c", dir |-> FALSE] >>

Trees == {TreeAB, TreeCT}

\* ----------------------------------------------------------------- regexp
\* regexp.Compile and Regexp.MatchString on the patterns the model uses.
Patterns == {"", "[", "^[ct]$"}

\* (mutant) the compile error is ignored
CompileNeverFails(p) == FALSE

CompileFails(p) == p = "["

MatchString(p, nm) == p = "^[ct]$" /\ nm \in {"c", "t"}

FileNames == {"", "t"}
DirNames == {"", "c"}

VARIABLES
    tree,        \* the directory tree walked
    failing,     \* the directories whose listing fails
    req,         \* the arguments of searchConcurrent
    mainPc,      \* position of the calling goroutine
    wg,          \* sync.WaitGroup counter
    semaphore,   \* number of tokens in the semaphore channel
    doneClosed,  \* doneChan is closed
    resultClosed,\* resultChan is closed
    gstatus,     \* per goroutine (named by the directory it starts on)
    stack,       \* per goroutine: its stack of processDir frames
    colPc,       \* position of the collector goroutine
    cur,         \* the SearchResult the collector is working on
    fileFound, dirFound, stats,   \* the named results, shared with the collector
    ret,         \* what the caller receives
    retRead,     \* the results the return statement has read so far
    errLog,      \* per directory: number of log.Printf error lines
    listCount,   \* per directory: number of os.ReadDir calls
    panicked,    \* the process died of a run-time panic
    run, prev,   \* call number, and what the previous call returned
    emitted      \* per entry: the match types of the events the collector received

vars == << tree, failing, req, mainPc, wg, semaphore, doneClosed, resultClosed,
           gstatus, stack, colPc, cur, fileFound, dirFound, stats, ret, retRead,
           errLog, listCount, panicked, run, prev, emitted >>

\* ------------------------------------------------------------ tree helpers
EntryIds == 1..Len(tree)
DirIds == {0} \cup {n \in EntryIds : tree[n].dir}
DirsOf(t) == {0} \cup {n \in 1..Len(t) : t[n].dir}
Children(d) == {n \in EntryIds : tree[n].parent = d}

RECURSIVE SortByName(_)
SortByName(S) ==
    IF S = {} THEN <<>>
    ELSE LET m == CHOOSE x \in S :
                    \A y \in S : NameRank(tree[x].name) <= NameRank(tree[y].name)
         IN <<m>> \o SortByName(S \ {m})

\* os.ReadDir returns the entries sorted by file name
Listing(d) == SortByName(Children(d))

NoResult == [Path |-> 0, IsDir |-> FALSE, Matched |-> ""]
ZeroStats == [RegexMatches |-> 0, FilesFound |-> 0, DirsFound |-> 0]
NoRet == [fileFound |-> FALSE, dirFound |-> FALSE, stats |-> ZeroStats,
          err |-> FALSE, valid |-> FALSE]

Frame(d) == [dir |-> d, entries |-> <<>>, i |-> 1, pc |-> "read"]

\* (mutant) the name tests forget the kind of the entry
MatchTypeAnyKind(n) ==
    LET e == tree[n]
        m1 == IF req.regexPattern # "" /\ MatchString(req.regexPattern, e.name)
              THEN "regex" ELSE ""
        m2 == IF req.dirName # "" /\ e.name = req.dirName THEN "dir" ELSE m1
        m3 == IF req.fileName # "" /\ e.name = req.fileName THEN "file" ELSE m2
    IN m3

\* the match type processDir computes for entry n: later tests overwrite
\* earlier ones
MatchType(n) ==
    LET e == tree[n]
        m1 == IF req.regexPattern # "" /\ MatchString(req.regexPattern, e.name)
              THEN "regex" ELSE ""
        m2 == IF req.dirName # "" /\ e.dir /\ e.name = req.dirName
              THEN "dir" ELSE m1
        m3 == IF req.fileName # "" /\ ~e.dir /\ e.name = req.fileName
              THEN "file" ELSE m2
    IN m3


\* -------------------------------------------------------------------- Init
Requests ==
    [fileName : FileNames, dirName : DirNames, regexPattern : Patterns,
     returnEarly : BOOLEAN, suppresErrors : BOOLEAN,
     maxWorkers : 1..MaxWorkersBound]

Fresh ==
    /\ mainPc = "start"
    /\ wg = 0
    /\ semaphore = 0
    /\ doneClosed = FALSE
    /\ resultClosed = FALSE
    /\ gstatus = [g \in 0..Len(tree) |-> "idle"]
    /\ stack = [g \in 0..Len(tree) |-> <<>>]
    /\ colPc = "idle"
    /\ cur = NoResult
    /\ fileFound = FALSE
    /\ dirFound = FALSE
    /\ stats = ZeroStats
    /\ ret = NoRet
    /\ retRead = {}
    /\ errLog = [d \in DirsOf(tree) |-> 0]
    /\ listCount = [d \in DirsOf(tree) |-> 0]
    /\ panicked = FALSE
    /\ emitted = [n \in 1..Len(tree) |-> <<>>]

Init ==
    /\ tree \in Trees
    /\ failing \in {F \in SUBSET DirsOf(tree) : Cardinality(F) <= MaxFail}
    /\ req \in Requests
    /\ run = 1
    /\ prev = NoRet
    /\ Fresh

\* ------------------------------------------------------ the caller, part 1
\* lines 29-35 (regexp.Compile), 38-48 (channels, WaitGroup, semaphore),
\* 144 (go collector), 198-199 (wg.Add(1); go processDir(rootDir, 0))
Start ==
    /\ ~panicked
    /\ mainPc = "start"
    /\ IF req.regexPattern # "" /\ CompileFails(req.regexPattern)
       THEN /\ ret' = [fileFound |-> FALSE, dirFound |-> FALSE, stats |-> stats,
                       err |-> TRUE, valid |-> TRUE]
            /\ mainPc' = "done"
            /\ UNCHANGED << wg, gstatus, stack, colPc >>
       ELSE /\ colPc' = "recv"
            /\ wg' = wg + 1
            /\ gstatus' = [gstatus EXCEPT ![0] = "run"]
            /\ stack' = [stack EXCEPT ![0] = <<Frame(0)>>]
            /\ mainPc' = "wait"
            /\ UNCHANGED ret
    /\ UNCHANGED << tree, failing, req, semaphore, doneClosed, resultClosed, cur,
                    fileFound, dirFound, stats, retRead, errLog, listCount,
                    panicked, run, prev, emitted >>

\* ------------------------------------------------------------- processDir
Goroutines == 0..Len(tree)

Running(g) == gstatus[g] = "run" /\ stack[g] # <<>>

Top(g) == stack[g][Len(stack[g])]

AtPc(g, p) == ~panicked /\ Running(g) /\ Top(g).pc = p

\* the stack of g with its top frame replaced
WithTop(g, f) == [stack EXCEPT ![g] = SubSeq(@, 1, Len(@) - 1) \o <<f>>]

\* the top frame moved on to the next entry of its loop
NextEntry(f) == [f EXCEPT !.i = @ + 1, !.pc = "check"]

\* processDir returns: the frame is popped; a synchronous caller (line 134)
\* goes on with its next entry; a goroutine whose last frame returned is left
\* with its deferred semaphore release (line 126), the root goroutine with
\* nothing
PopFrame(g) ==
    LET rest == SubSeq(stack[g], 1, Len(stack[g]) - 1)
    IN IF rest = <<>>
       THEN /\ stack' = [stack EXCEPT ![g] = <<>>]
            /\ gstatus' = [gstatus EXCEPT ![g] = IF g = 0 THEN "done" ELSE "release"]
       ELSE /\ stack' = [stack EXCEPT ![g] =
                           SubSeq(rest, 1, Len(rest) - 1) \o <<NextEntry(rest[Len(rest)])>>]
            /\ UNCHANGED gstatus

\* defer wg.Done() (line 56) as processDir returns
ReturnFromDir(g) ==
    /\ wg' = wg - 1
    /\ PopFrame(g)

\* line 59-63: os.ReadDir; a failed listing is logged and abandoned unless
\* errors are suppressed, and then the entries read before the failure are
\* walked
ReadDir(g) ==
    /\ AtPc(g, "read")
    /\ LET d == Top(g).dir
       IN /\ listCount' = [listCount EXCEPT ![d] = @ + 1]
          /\ IF d \in failing /\ ~req.suppresErrors
             THEN /\ errLog' = [errLog EXCEPT ![d] = @ + 1]
                  /\ ReturnFromDir(g)
             ELSE /\ \E k \in 0..Len(Listing(d)) :
                        /\ d \notin failing => k = Len(Listing(d))
                        /\ stack' = WithTop(g, [Top(g) EXCEPT
                                          !.entries = SubSeq(Listing(d), 1, k),
                                          !.pc = "check"])
                  /\ UNCHANGED << errLog, wg, gstatus >>
    /\ UNCHANGED << tree, failing, req, mainPc, semaphore, doneClosed, resultClosed,
                    colPc, cur, fileFound, dirFound, stats, ret, retRead,
                    panicked, run, prev, emitted >>

\* lines 66-98 and 116-117: the loop head, the non-blocking check of doneChan
\* and the classification of the entry
LoopCheck(g) ==
    /\ AtPc(g, "check")
    /\ LET f == Top(g)
       IN IF f.i > Len(f.entries) \/ doneClosed
          THEN ReturnFromDir(g)
          ELSE /\ stack' = WithTop(g,
                     IF MatchType(f.entries[f.i]) # "" THEN [f EXCEPT !.pc = "send"]
                     ELSE IF tree[f.entries[f.i]].dir THEN [f EXCEPT !.pc = "sched"]
                     ELSE NextEntry(f))
               /\ UNCHANGED << wg, gstatus >>
    /\ UNCHANGED << tree, failing, req, mainPc, semaphore, doneClosed, resultClosed,
                    colPc, cur, fileFound, dirFound, stats, ret, retRead, errLog,
                    listCount, panicked, run, prev, emitted >>

\* the entry the top frame of g is working on (to emit, or to schedule)
ChildOf(g) == Top(g).entries[Top(g).i]

AfterSend(f) ==
    IF tree[f.entries[f.i]].dir THEN [f EXCEPT !.pc = "sched"] ELSE NextEntry(f)

\* line 109: the send on the unbuffered resultChan meets the collector's
\* receive (line 145)
SendResult(g) ==
    /\ AtPc(g, "send")
    /\ colPc = "recv"
    /\ ~resultClosed
    /\ LET f == Top(g)
           n == f.entries[f.i]
       IN /\ cur' = [Path |-> n, IsDir |-> tree[n].dir, Matched |-> MatchType(n)]
          /\ stack' = WithTop(g, AfterSend(f))
    /\ colPc' = "apply"
    /\ emitted' = [emitted EXCEPT ![ChildOf(g)] = Append(@, MatchType(ChildOf(g)))]
    /\ UNCHANGED << tree, failing, req, mainPc, wg, semaphore, doneClosed,
                    resultClosed, gstatus, fileFound, dirFound, stats, ret, retRead,
                    errLog, listCount, panicked, run, prev >>

\* (mutant) the event is given up whenever the collector is busy
SendOrDrop(g) ==
    /\ AtPc(g, "send")
    /\ doneClosed \/ colPc # "recv"
    /\ ReturnFromDir(g)
    /\ UNCHANGED << tree, failing, req, mainPc, semaphore, doneClosed, resultClosed,
                    colPc, cur, fileFound, dirFound, stats, ret, retRead, errLog,
                    listCount, panicked, run, prev, emitted >>

\* line 111-112: the select takes the closed doneChan instead
SendCancelled(g) ==
    /\ AtPc(g, "send")
    /\ doneClosed
    /\ ReturnFromDir(g)
    /\ UNCHANGED << tree, failing, req, mainPc, semaphore, doneClosed, resultClosed,
                    colPc, cur, fileFound, dirFound, stats, ret, retRead, errLog,
                    listCount, panicked, run, prev, emitted >>

\* (mutant) the semaphore never fills up
SemUnbounded == TRUE

\* line 123: a send on the buffered semaphore channel can proceed
SemHasRoom == semaphore < req.maxWorkers

\* lines 118, 123-128: wg.Add(1); a token is acquired and the subdirectory
\* gets a goroutine of its own
SpawnChild(g) ==
    /\ AtPc(g, "sched")
    /\ SemHasRoom
    /\ wg' = wg + 1
    /\ semaphore' = semaphore + 1
    /\ gstatus' = [gstatus EXCEPT ![ChildOf(g)] = "run"]
    /\ stack' = [WithTop(g, NextEntry(Top(g))) EXCEPT ![ChildOf(g)] = <<Frame(ChildOf(g))>>]
    /\ UNCHANGED << tree, failing, req, mainPc, doneClosed, resultClosed, colPc, cur,
                    fileFound, dirFound, stats, ret, retRead, errLog, listCount,
                    panicked, run, prev, emitted >>

\* (mutant) the wg.Done() for the child that will not run is forgotten
AbandonChildNoDone(g) ==
    /\ AtPc(g, "sched")
    /\ doneClosed
    /\ wg' = wg + 1 - 1
    /\ PopFrame(g)
    /\ UNCHANGED << tree, failing, req, mainPc, semaphore, doneClosed, resultClosed,
                    colPc, cur, fileFound, dirFound, stats, ret, retRead, errLog,
                    listCount, panicked, run, prev, emitted >>

\* lines 118, 129-131: wg.Add(1); the select takes the closed doneChan:
\* wg.Done() for the child that will not run, and processDir returns
AbandonChild(g) ==
    /\ AtPc(g, "sched")
    /\ doneClosed
    /\ wg' = wg + 1 - 1 - 1
    /\ PopFrame(g)
    /\ UNCHANGED << tree, failing, req, mainPc, semaphore, doneClosed, resultClosed,
                    colPc, cur, fileFound, dirFound, stats, ret, retRead, errLog,
                    listCount, panicked, run, prev, emitted >>

\* lines 118, 132-134: wg.Add(1); neither channel is ready, so the default
\* case calls processDir for the subdirectory in this goroutine
CallChild(g) ==
    /\ AtPc(g, "sched")
    /\ ~SemHasRoom
    /\ ~doneClosed
    /\ wg' = wg + 1
    /\ stack' = [stack EXCEPT ![g] = @ \o <<Frame(ChildOf(g))>>]
    /\ UNCHANGED << tree, failing, req, mainPc, semaphore, doneClosed, resultClosed,
                    gstatus, colPc, cur, fileFound, dirFound, stats, ret, retRead,
                    errLog, listCount, panicked, run, prev, emitted >>

\* line 126: the deferred receive from the semaphore channel, once the
\* goroutine's processDir has returned
Release(g) ==
    /\ ~panicked
    /\ gstatus[g] = "release"
    /\ semaphore' = semaphore - 1
    /\ gstatus' = [gstatus EXCEPT ![g] = "done"]
    /\ UNCHANGED << tree, failing, req, mainPc, wg, doneClosed, resultClosed, stack,
                    colPc, cur, fileFound, dirFound, stats, ret, retRead, errLog,
                    listCount, panicked, run, prev, emitted >>

\* ---------------------------------------------------------- the collector
\* lines 149-169, the first write of the case taken
CollectorApply ==
    /\ ~panicked
    /\ colPc = "apply"
    /\ fileFound' = (fileFound \/ cur.Matched = "file")
    /\ dirFound' = (dirFound \/ cur.Matched = "dir")
    /\ stats' = IF cur.Matched = "regex"
                THEN [stats EXCEPT !.RegexMatches = @ + 1] ELSE stats
    /\ colPc' = "signal"
    /\ UNCHANGED << tree, failing, req, mainPc, wg, semaphore, doneClosed,
                    resultClosed, gstatus, stack, cur, ret, retRead, errLog,
                    listCount, panicked, run, prev, emitted >>

\* (mutant) the requested names are not consulted
ShouldTerminateAny(f, d) == req.returnEarly

\* lines 179-188 on the flags f (file) and d (dir)
ShouldTerminate(f, d) ==
    IF req.returnEarly
    THEN IF req.fileName # "" /\ req.dirName # "" THEN f /\ d
         ELSE IF req.fileName # "" THEN f
         ELSE IF req.dirName # "" THEN d
         ELSE req.returnEarly
    ELSE req.returnEarly

\* lines 149-169, the second write of the case taken; lines 179-193: the
\* stop condition and close(doneChan).  Closing a closed channel panics.
CollectorSignal ==
    /\ ~panicked
    /\ colPc = "signal"
    /\ LET f == fileFound \/ (cur.Matched = "regex" /\ ~cur.IsDir)
           d == dirFound \/ (cur.Matched = "regex" /\ cur.IsDir)
       IN /\ fileFound' = f
          /\ dirFound' = d
          /\ stats' = [stats EXCEPT
                         !.FilesFound = IF cur.Matched = "file" THEN @ + 1 ELSE @,
                         !.DirsFound = IF cur.Matched = "dir" THEN @ + 1 ELSE @]
          /\ doneClosed' = (doneClosed \/ ShouldTerminate(f, d))
          /\ panicked' = (doneClosed /\ ShouldTerminate(f, d))
    /\ colPc' = "recv"
    /\ UNCHANGED << tree, failing, req, mainPc, wg, semaphore, resultClosed, gstatus,
                    stack, cur, ret, retRead, errLog, listCount, run, prev, emitted >>

\* line 145: the range loop ends when resultChan is closed
CollectorExit ==
    /\ ~panicked
    /\ colPc = "recv"
    /\ resultClosed
    /\ colPc' = "exit"
    /\ UNCHANGED << tree, failing, req, mainPc, wg, semaphore, doneClosed,
                    resultClosed, gstatus, stack, cur, fileFound, dirFound, stats,
                    ret, retRead, errLog, listCount, panicked, run, prev, emitted >>

\* ------------------------------------------------------ the caller, part 2
\* (mutant) the caller goes on without waiting for the counter
MainNoWait ==
    /\ ~panicked
    /\ mainPc = "wait"
    /\ mainPc' = "close"
    /\ UNCHANGED << tree, failing, req, wg, semaphore, doneClosed, resultClosed,
                    gstatus, stack, colPc, cur, fileFound, dirFound, stats, ret,
                    retRead, errLog, listCount, panicked, run, prev, emitted >>

\* line 202: wg.Wait() returns when the counter is zero
MainWait ==
    /\ ~panicked
    /\ mainPc = "wait"
    /\ wg = 0
    /\ mainPc' = "close"
    /\ UNCHANGED << tree, failing, req, wg, semaphore, doneClosed, resultClosed,
                    gstatus, stack, colPc, cur, fileFound, dirFound, stats, ret,
                    retRead, errLog, listCount, panicked, run, prev, emitted >>

\* line 205: close(resultChan)
MainClose ==
    /\ ~panicked
    /\ mainPc = "close"
    /\ resultClosed' = TRUE
    /\ mainPc' = "return"
    /\ UNCHANGED << tree, failing, req, wg, semaphore, doneClosed, gstatus, stack,
                    colPc, cur, fileFound, dirFound, stats, ret, retRead, errLog,
                    listCount, panicked, run, prev, emitted >>

ResultFields == {"fileFound", "dirFound", "stats"}

\* line 207: the return statement reads the three named results.  Nothing
\* orders these reads with the collector's writes, so each is a step of its
\* own, in any order; the call has returned when all three are read.
MainReturn(x) ==
    /\ ~panicked
    /\ mainPc = "return"
    /\ x \in ResultFields \ retRead
    /\ retRead' = retRead \cup {x}
    /\ ret' = [ret EXCEPT !.fileFound = IF x = "fileFound" THEN fileFound ELSE @,
                          !.dirFound = IF x = "dirFound" THEN dirFound ELSE @,
                          !.stats = IF x = "stats" THEN stats ELSE @,
                          !.valid = (retRead' = ResultFields)]
    /\ mainPc' = IF retRead' = ResultFields THEN "done" ELSE "return"
    /\ UNCHANGED << tree, failing, req, wg, semaphore, doneClosed, resultClosed,
                    gstatus, stack, colPc, cur, fileFound, dirFound, stats, errLog,
                    listCount, panicked, run, prev, emitted >>

\* the same request is issued again on the same tree: every entity of the
\* call is created anew (lines 38-51), the tree and the request stay
CallAgain ==
    /\ ~panicked
    /\ mainPc = "done"
    /\ run = 1
    /\ run' = 2
    /\ prev' = ret
    /\ mainPc' = "start"
    /\ wg' = 0
    /\ semaphore' = 0
    /\ doneClosed' = FALSE
    /\ resultClosed' = FALSE
    /\ gstatus' = [g \in 0..Len(tree) |-> "idle"]
    /\ stack' = [g \in 0..Len(tree) |-> <<>>]
    /\ colPc' = "idle"
    /\ cur' = NoResult
    /\ fileFound' = FALSE
    /\ dirFound' = FALSE
    /\ stats' = ZeroStats
    /\ ret' = NoRet
    /\ retRead' = {}
    /\ errLog' = [d \in DirsOf(tree) |-> 0]
    /\ listCount' = [d \in DirsOf(tree) |-> 0]
    /\ panicked' = FALSE
    /\ emitted' = [n \in 1..Len(tree) |-> <<>>]
    /\ UNCHANGED << tree, failing, req >>

\* --------------------------------------------------------- specifications
Next ==
    \/ Start
    \/ \E g \in Goroutines : ReadDir(g)
    \/ \E g \in Goroutines : LoopCheck(g)
    \/ \E g \in Goroutines : SendResult(g)
    \/ \E g \in Goroutines : SendCancelled(g)
    \/ \E g \in Goroutines : SpawnChild(g)
    \/ \E g \in Goroutines : AbandonChild(g)
    \/ \E g \in Goroutines : CallChild(g)
    \/ \E g \in Goroutines : Release(g)
    \/ CollectorApply
    \/ CollectorSignal
    \/ CollectorExit
    \/ MainWait
    \/ MainClose
    \/ \E x \in ResultFields : MainReturn(x)

Spec == Init /\ [][Next]_vars

\* two calls in a row, on a tree every directory of which lists the same
\* way both times
NextTwice == Next \/ CallAgain

InitTwice == Init /\ failing = {}

SpecTwice == InitTwice /\ [][NextTwice]_vars

returned == mainPc = "done"

\* ------------------------------------------------------------ true counts
FileMatches(S) == {n \in S : ~tree[n].dir /\ tree[n].name = req.fileName}
DirMatches(S) == {n \in S : tree[n].dir /\ tree[n].name = req.dirName}
RegexMatchSet(S) ==
    {n \in S : req.regexPattern # "" /\ MatchString(req.regexPattern, tree[n].name)}

CountsOver(S) == [RegexMatches |-> Cardinality(RegexMatchSet(S)),
                  FilesFound |-> Cardinality(FileMatches(S)),
                  DirsFound |-> Cardinality(DirMatches(S))]

RECURSIVE Under(_, _)
\* entry n lies in the subtree of directory d
Under(n, d) ==
    IF n = 0 THEN FALSE
    ELSE tree[n].parent = d \/ Under(tree[n].parent, d)

ValidRegex == req.regexPattern # "["
ActiveSpawned == {g \in Goroutines \ {0} : gstatus[g] \in {"run", "release"}}

\* ------------------------------------------------------------------ claims
\* C1: with returnEarly=false on a fully readable tree, the returned stats
\* equal the true counts of file-name, directory-name and regex matches.
C1_Exhaustive ==
    (returned /\ ValidRegex /\ ~req.returnEarly /\ failing = {})
        => ret.stats = CountsOver(EntryIds)

\* C2: once resultChan is closed no processDir frame exists on any goroutine,
\* so no task is running or able to attempt a send.
C2_ClosedOnlyWhenIdle ==
    resultClosed => \A g \in Goroutines : stack[g] = <<>> /\ gstatus[g] # "run"

C2_Witness ==
    /\ resultClosed
    /\ \E g \in Goroutines \ {0} : gstatus[g] = "release"
    /\ \E d \in DirIds : listCount[d] > 0 /\ d # 0

\* C3: doneChan is closed at most once; a repeated broadcast is a no-op and
\* never an error state.
C3_RepeatedBroadcastHarmless == ~panicked

\* C4: the goroutines spawned through the semaphore and not yet finished
\* never number more than maxWorkers.
C4_BudgetRespected == Cardinality(ActiveSpawned) <= req.maxWorkers

C4_Witness ==
    /\ req.maxWorkers = 2
    /\ Cardinality({g \in Goroutines \ {0} : gstatus[g] = "run"}) = 2
    /\ gstatus[0] = "run"

\* C5: when searchConcurrent has returned, every event the collector received
\* has been fully applied to the flags and counters.
C5_ReturnAfterDrain ==
    (returned /\ ValidRegex) => colPc \in {"recv", "exit"}

\* C6: returnEarly=true with a file name only, on a readable tree holding a
\* file of that name: the call returns fileFound=true and FilesFound >= 1.
C6_EarlyFileFound ==
    (/\ returned
     /\ req.returnEarly /\ req.fileName # "" /\ req.dirName = ""
     /\ req.regexPattern = "" /\ failing = {}
     /\ FileMatches(EntryIds) # {})
        => ret.fileFound /\ ret.stats.FilesFound >= 1

\* C7: every execution returns: as long as the call has not returned, some
\* goroutine can take a step.
C7_NeverStuck == returned \/ ENABLED Next

\* C8: the returned error is non-nil exactly when the pattern is non-empty
\* and does not compile, and then nothing was listed, no goroutine was
\* started, both flags are false and all counters zero; a failed listing
\* never makes the error non-nil.
C8_ErrorOnlyForBadRegex ==
    returned =>
        /\ ret.err <=> req.regexPattern = "["
        /\ ret.err =>
             /\ ~ret.fileFound /\ ~ret.dirFound /\ ret.stats = ZeroStats
             /\ \A d \in DirIds : listCount[d] = 0
             /\ \A g \in Goroutines : gstatus[g] = "idle"
             /\ colPc = "idle"

C8_Witness == returned /\ ret.err /\ req.regexPattern = "[" /\ failing # {}

\* C9: suppressErrors=false, returnEarly=false, exactly one directory fails
\* to list: nil error, the counts are the true counts over the entries
\* outside that directory's subtree, and exactly one error line is logged,
\* for that directory.
C9_OneUnreadable ==
    (/\ returned /\ ValidRegex
     /\ ~req.suppresErrors /\ ~req.returnEarly
     /\ Cardinality(failing) = 1)
        => /\ ~ret.err
           /\ ret.stats = CountsOver({n \in EntryIds : \A d \in failing : ~Under(n, d)})
           /\ errLog = [d \in DirIds |-> IF d \in failing THEN 1 ELSE 0]

\* C10: the same request run twice on the same tree returns the same flags
\* and the same stats.
C10_Idempotent == (run = 2 /\ returned) => ret = prev

\* ------------------------------------------- the naive sequential walk
\* One goroutine, depth first, entries in listing order; the entry is
\* classified as processDir classifies it, its event is applied as the
\* collector applies it, and the walk stops where the collector would signal.
SeqStart == [fileFound |-> FALSE, dirFound |-> FALSE, stats |-> ZeroStats,
             stopped |-> FALSE]

SeqApply(n, acc) ==
    LET mt == MatchType(n)
        f == acc.fileFound \/ mt = "file" \/ (mt = "regex" /\ ~tree[n].dir)
        d == acc.dirFound \/ mt = "dir" \/ (mt = "regex" /\ tree[n].dir)
    IN IF mt = "" THEN acc
       ELSE [fileFound |-> f, dirFound |-> d,
             stats |-> [RegexMatches |-> acc.stats.RegexMatches + (IF mt = "regex" THEN 1 ELSE 0),
                        FilesFound |-> acc.stats.FilesFound + (IF mt = "file" THEN 1 ELSE 0),
                        DirsFound |-> acc.stats.DirsFound + (IF mt = "dir" THEN 1 ELSE 0)],
             stopped |-> ShouldTerminate(f, d)]

RECURSIVE SeqEntries(_, _, _)
SeqEntries(es, i, acc) ==
    IF i > Len(es) \/ acc.stopped THEN acc
    ELSE LET a1 == SeqApply(es[i], acc)
             a2 == IF tree[es[i]].dir /\ ~a1.stopped
                   THEN SeqEntries(Listing(es[i]), 1, a1) ELSE a1
         IN SeqEntries(es, i + 1, a2)

SeqWalk == SeqEntries(Listing(0), 1, SeqStart)

\* C11: with maxWorkers=1 the returned flags and stats are those of the
\* naive sequential depth-first walk.
C11_MatchesSequentialWalk ==
    (returned /\ ValidRegex /\ req.maxWorkers = 1 /\ failing = {})
        => /\ ret.fileFound = SeqWalk.fileFound
           /\ ret.dirFound = SeqWalk.dirFound
           /\ ret.stats = SeqWalk.stats

\* the match types an entry satisfies, regex first, then the name match
KindsOf(n) ==
    (IF req.regexPattern # "" /\ MatchString(req.regexPattern, tree[n].name)
     THEN <<"regex">> ELSE <<>>)
    \o (IF req.dirName # "" /\ tree[n].dir /\ tree[n].name = req.dirName
        THEN <<"dir">> ELSE <<>>)
    \o (IF req.fileName # "" /\ ~tree[n].dir /\ tree[n].name = req.fileName
        THEN <<"file">> ELSE <<>>)

\* C12: every entry emits one event per match kind it satisfies, the regex
\* event first, the file/dir event second (stated for a complete walk:
\* returnEarly=false, every directory readable).
C12_EventPerKind ==
    (returned /\ ValidRegex /\ ~req.returnEarly /\ failing = {})
        => \A n \in EntryIds : emitted[n] = KindsOf(n)

\* the stop condition on the flags f (file) and d (dir), by requested targets
StopCondition(f, d) ==
    IF req.fileName # "" /\ req.dirName # "" THEN f /\ d
    ELSE IF req.fileName # "" THEN f
    ELSE IF req.dirName # "" THEN d
    ELSE TRUE

\* C13: when the collector has applied an event it signals cancellation
\* (closes doneChan, or attempts to once more) exactly when returnEarly is
\* set and the stop condition holds on the flags as they then are; with
\* returnEarly=false cancellation is never signaled.
C13_SignalIffStop ==
    /\ [][(colPc = "signal" /\ colPc' = "recv")
            => ((doneClosed' /\ (~doneClosed \/ panicked'))
                  <=> (req.returnEarly /\ StopCondition(fileFound', dirFound')))]_vars
    /\ [](~req.returnEarly => ~doneClosed)

C13_Witness ==
    /\ doneClosed /\ ~panicked /\ colPc = "recv"
    /\ req.fileName # "" /\ req.dirName # ""
    /\ fileFound /\ dirFound
    /\ stats.FilesFound + stats.DirsFound + stats.RegexMatches >= 2

\* C14: a dispatcher leaves its emission only because the collector took
\* exactly that event, or with cancellation already signaled; no event is
\* received twice.
C14_NoSilentDrop ==
    /\ [][\A g \in Goroutines :
            (AtPc(g, "send") /\ stack'[g] # stack[g])
              => \/ doneClosed
                 \/ /\ colPc = "recv" /\ colPc' = "apply"
                    /\ cur'.Path = ChildOf(g)
                    /\ cur'.Matched = MatchType(ChildOf(g))
                    /\ Len(emitted'[ChildOf(g)]) = Len(emitted[ChildOf(g)]) + 1]_vars
    /\ [](\A n \in EntryIds : Len(emitted[n]) <= 1)

C14_Witness ==
    /\ doneClosed /\ ~panicked
    /\ colPc # "recv"
    /\ \E g \in Goroutines : Running(g) /\ Top(g).pc = "send"
    /\ \E n \in EntryIds : emitted[n] # <<>>

\* C15: a task that reaches the scheduling step of a subdirectory with
\* cancellation already signaled abandons it: no goroutine is started for
\* it and it is not called synchronously, whether or not a token is free.
C15_AbandonOnCancel ==
    [][\A g \in Goroutines :
         (AtPc(g, "sched") /\ doneClosed /\ stack'[g] # stack[g])
           => /\ gstatus'[ChildOf(g)] = "idle"
              /\ stack'[ChildOf(g)] = <<>>
              /\ Len(stack'[g]) < Len(stack[g])]_vars

\* the directories some processDir frame is working on
FrameDirs == {d \in DirIds : \E g \in Goroutines : \E k \in 1..Len(stack[g]) :
                                 stack[g][k].dir = d}

\* C16: with suppressErrors=true a directory whose listing fails is abandoned
\* silently: nothing is logged, no event is emitted for any of its entries
\* and no task is scheduled for any of its subdirectories.
C16_SilentAbandon ==
    req.suppresErrors =>
        \A d \in failing :
            /\ errLog[d] = 0
            /\ \A n \in Children(d) :
                  /\ emitted[n] = <<>>
                  /\ n \notin FrameDirs
                  /\ tree[n].dir => listCount[n] = 0

RECURSIVE FramesUpTo(_)
\* the number of processDir frames on the stacks of goroutines 0..g
FramesUpTo(g) == IF g < 0 THEN 0 ELSE Len(stack[g]) + FramesUpTo(g - 1)

\* C17: the WaitGroup counter always equals the number of dispatcher tasks
\* outstanding (one count per task, added when it is scheduled and taken back
\* when it returns or is abandoned); it is never negative and is not zero
\* while a task is running.
C17_Balanced ==
    /\ wg = FramesUpTo(Len(tree))
    /\ wg >= 0
    /\ (\E g \in Goroutines : Running(g)) => wg > 0

C17_Witness ==
    /\ wg = 0 /\ mainPc = "wait" /\ doneClosed
    /\ \E d \in DirIds : listCount[d] = 0
    /\ \E d \in DirIds \ {0} : listCount[d] = 1

\* C18: the tokens held are exactly those of the spawned goroutines that have
\* not released yet, and whenever nothing can move any more no token is held.
C18_TokensReturned ==
    /\ semaphore = Cardinality(ActiveSpawned)
    /\ semaphore = 0 \/ ENABLED Next

\* C19: with maxWorkers=1 at most one dispatcher task is executing.
C19_SingleTask ==
    req.maxWorkers = 1 => Cardinality({g \in Goroutines : Running(g)}) <= 1

\* C20: no counter exceeds the true count of its criterion; every directory
\* is listed at most once and every entry produces at most one event.
C20_NoOvercount ==
    /\ stats.FilesFound <= Cardinality(FileMatches(EntryIds))
    /\ stats.DirsFound <= Cardinality(DirMatches(EntryIds))
    /\ stats.RegexMatches <= Cardinality(RegexMatchSet(EntryIds))
    /\ ret.stats.FilesFound <= Cardinality(FileMatches(EntryIds))
    /\ ret.stats.DirsFound <= Cardinality(DirMatches(EntryIds))
    /\ ret.stats.RegexMatches <= Cardinality(RegexMatchSet(EntryIds))
    /\ \A d \in DirIds : listCount[d] <= 1
    /\ \A n \in EntryIds : Len(emitted[n]) <= 1

C20_Witness ==
    /\ returned /\ req.returnEarly /\ failing # {}
    /\ ret.stats.FilesFound = 1 /\ Cardinality(FileMatches(EntryIds)) = 1
    /\ ret.stats.DirsFound = 1 /\ Cardinality(DirMatches(EntryIds)) = 1

Consistent(f, d, s) ==
    /\ s.FilesFound > 0 => f
    /\ s.DirsFound > 0 => d
    /\ s.RegexMatches > 0 => (f \/ d)
    /\ s = ZeroStats => (~f /\ ~d)

RegexCollected(isDir) ==
    \E n \in EntryIds :
        tree[n].dir = isDir /\ emitted[n] = <<"regex">> /\ stats.RegexMatches > 0

CollectorHoldsMu == colPc = "signal"

\* C21: whenever the collector is outside its critical section, and in the
\* values handed back to the caller, a positive counter implies its flag, a
\* positive RegexMatches implies one of the flags, all counters zero implies
\* both flags false, and a flag that is true with its own counter at zero
\* comes from a collected regex event for an entry of that kind.
C21_FlagsCountersConsistent ==
    /\ ~CollectorHoldsMu =>
          /\ Consistent(fileFound, dirFound, stats)
          /\ (fileFound /\ stats.FilesFound = 0) => RegexCollected(FALSE)
          /\ (dirFound /\ stats.DirsFound = 0) => RegexCollected(TRUE)
    /\ returned => Consistent(ret.fileFound, ret.dirFound, ret.stats)

\* The part of C21 that concerns the collector's own view between two events.
C21_ConsistentBetweenEvents ==
    ~CollectorHoldsMu =>
        /\ Consistent(fileFound, dirFound, stats)
        /\ (fileFound /\ stats.FilesFound = 0) => RegexCollected(FALSE)
        /\ (dirFound /\ stats.DirsFound = 0) => RegexCollected(TRUE)

\* A flag once true never becomes false during one call.
C21_FlagsMonotone ==
    [][(fileFound => fileFound') /\ (dirFound => dirFound')]_vars

====
